---- MODULE Spec2Model ----
(***************************************************************************)
(* Model of the domainmatcher crate (src/src/lib.rs): the pattern compiler *)
(* (TryFrom<&str> for DomainPattern), DomainPattern::to_owned and the      *)
(* matching engine DomainPattern::matches.                                 *)
(*                                                                         *)
(* A string is a sequence of one-character strings, so that splitting on   *)
(* the separator and looking for '*' and '+' inside a token are computed   *)
(* the way the code computes them.                                         *)
(***************************************************************************)
EXTENDS Integers, Sequences, FiniteSets, TLC

VARIABLES
    splitter,   \* the const generic SPLITTER the pattern was constructed with
    s,          \* the pattern string handed to parse
    pattern,    \* the value in hand: none, a DomainPattern or an InvalidToken
    domain,     \* the name handed to matches
    trace,      \* the engine's state before the first and after each label
    result,     \* the boolean returned by matches
    rendered,   \* the text Display wrote for the InvalidToken
    pc          \* "start", "failed", "shown", "parsed", "owned", "done", "done_owned"

vars == <<splitter, s, pattern, domain, trace, result, rendered, pc>>

----------------------------------------------------------------------------
(* Bounds of the model *)

MaxTokens == 3
MaxLabels == 3
MaxCopies == 5
MaxStars == 5

----------------------------------------------------------------------------
(* Strings *)

Dot == "."
Slash == "/"
Star == "*"
Plus == "+"

EmptyStr == <<>>

\* the default of the const generic: `const SPLITTER: char = '.'`
DefaultSplitter == Dot

Contains(str, chars) == \E i \in 1..Len(str) : str[i] \in chars

FirstIndex(str, c) == CHOOSE i \in 1..Len(str) : str[i] = c /\ \A j \in 1..(i-1) : str[j] # c

\* str::split(char): the pieces between the occurrences of c, empty ones kept
RECURSIVE Split(_, _)
Split(str, c) ==
    IF ~Contains(str, {c})
    THEN <<str>>
    ELSE LET i == FirstIndex(str, c)
         IN  <<SubSeq(str, 1, i - 1)>> \o Split(SubSeq(str, i + 1, Len(str)), c)

----------------------------------------------------------------------------
(* Steps *)

Static(label) == [kind |-> "Static", label |-> label]

Wildcard(multi, optional) == [kind |-> "Wildcard", multi |-> multi, optional |-> optional]

IsWildcard(step) == step.kind = "Wildcard"

IsStatic(step) == step.kind = "Static"

----------------------------------------------------------------------------
(* The compiler: TryFrom<&str>::try_from *)

TokStar == <<Star>>
TokPlus == <<Plus>>
TokStarStar == <<Star, Star>>
TokStarStarPlus == <<Star, Star, Plus>>

IsShorthand(part) == part \in {TokStar, TokPlus, TokStarStar, TokStarStarPlus}

\* the (optional, multi) pair of the match on the token
Classify(part) ==
    IF part = TokStar THEN [optional |-> TRUE, multi |-> FALSE]
    ELSE IF part = TokPlus THEN [optional |-> FALSE, multi |-> FALSE]
    ELSE IF part = TokStarStar THEN [optional |-> TRUE, multi |-> TRUE]
    ELSE [optional |-> FALSE, multi |-> TRUE]

\* a check that looks for '*' only
IsInvalidStarOnly(part) == ~IsShorthand(part) /\ Contains(part, {Star})

IsInvalid(part) == ~IsShorthand(part) /\ Contains(part, {Star, Plus})

SetLast(steps, step) == [steps EXCEPT ![Len(steps)] = step]

\* an optimizer without the `**.** = **` rule
PushWildcardNoCollapse(steps, optional, multi) ==
    IF steps # <<>> /\ IsWildcard(steps[Len(steps)])
    THEN LET last == steps[Len(steps)]
         IN  IF optional # last.optional /\ (last.multi \/ multi)
             THEN [steps |-> SetLast(steps, Wildcard(TRUE, FALSE)), pushed |-> FALSE]
             ELSE IF last.multi /\ ~optional /\ ~last.optional
             THEN [steps |-> Append(SetLast(steps, Wildcard(FALSE, last.optional)),
                                    Wildcard(TRUE, optional)),
                   pushed |-> TRUE]
             ELSE [steps |-> Append(steps, Wildcard(multi, optional)), pushed |-> TRUE]
    ELSE [steps |-> Append(steps, Wildcard(multi, optional)), pushed |-> TRUE]

\* an optimizer without the cascading rule `**+.+ = +.**+`
PushWildcardNoCascade(steps, optional, multi) ==
    IF steps # <<>> /\ IsWildcard(steps[Len(steps)])
    THEN LET last == steps[Len(steps)]
         IN  IF last.multi /\ last.optional /\ multi /\ optional
             THEN [steps |-> steps, pushed |-> FALSE]
             ELSE IF optional # last.optional /\ (last.multi \/ multi)
             THEN [steps |-> SetLast(steps, Wildcard(TRUE, FALSE)), pushed |-> FALSE]
             ELSE [steps |-> Append(steps, Wildcard(multi, optional)), pushed |-> TRUE]
    ELSE [steps |-> Append(steps, Wildcard(multi, optional)), pushed |-> TRUE]

\* an optimizer whose merge rule looks at the multi flag of the new token only
PushWildcardNewMultiOnly(steps, optional, multi) ==
    IF steps # <<>> /\ IsWildcard(steps[Len(steps)])
    THEN LET last == steps[Len(steps)]
         IN  IF last.multi /\ last.optional /\ multi /\ optional
             THEN [steps |-> steps, pushed |-> FALSE]
             ELSE IF optional # last.optional /\ multi
             THEN [steps |-> SetLast(steps, Wildcard(TRUE, FALSE)), pushed |-> FALSE]
             ELSE IF last.multi /\ ~optional /\ ~last.optional
             THEN [steps |-> Append(SetLast(steps, Wildcard(FALSE, last.optional)),
                                    Wildcard(TRUE, optional)),
                   pushed |-> TRUE]
             ELSE [steps |-> Append(steps, Wildcard(multi, optional)), pushed |-> TRUE]
    ELSE [steps |-> Append(steps, Wildcard(multi, optional)), pushed |-> TRUE]

\* the "optimizer": what appending a wildcard (optional, multi) does to steps
PushWildcard(steps, optional, multi) ==
    IF steps # <<>> /\ IsWildcard(steps[Len(steps)])
    THEN LET last == steps[Len(steps)]
         IN  IF last.multi /\ last.optional /\ multi /\ optional
             THEN [steps |-> steps, pushed |-> FALSE]
             ELSE IF optional # last.optional /\ (last.multi \/ multi)
             THEN [steps |-> SetLast(steps, Wildcard(TRUE, FALSE)), pushed |-> FALSE]
             ELSE IF last.multi /\ ~optional /\ ~last.optional
             THEN [steps |-> Append(SetLast(steps, Wildcard(FALSE, last.optional)),
                                    Wildcard(TRUE, optional)),
                   pushed |-> TRUE]
             ELSE [steps |-> Append(steps, Wildcard(multi, optional)), pushed |-> TRUE]
    ELSE [steps |-> Append(steps, Wildcard(multi, optional)), pushed |-> TRUE]

\* a loop body that drops empty tokens instead of pushing an empty literal
TryFromPartDropEmpty(st, part, full) ==
    LET position == st.offset
        offset1  == st.offset + Len(part) + 1
    IN  IF part = EmptyStr
        THEN [st EXCEPT !.offset = offset1]
        ELSE IF IsShorthand(part)
        THEN LET c == Classify(part)
                 p == PushWildcard(st.steps, c.optional, c.multi)
             IN  [st EXCEPT !.steps = p.steps,
                            !.offset = IF p.pushed THEN offset1 + 1 + Len(part) ELSE offset1]
        ELSE IF IsInvalid(part)
        THEN [st EXCEPT !.offset = offset1,
                        !.failed = TRUE,
                        !.err = [position |-> position,
                                 unexpected_token |-> part,
                                 full_string |-> full]]
        ELSE [st EXCEPT !.steps = Append(st.steps, Static(part)),
                        !.offset = offset1 + 1 + Len(part)]

\* a loop body that advances the offset once per token, by its length and the separator
TryFromPartOnce(st, part, full) ==
    LET position == st.offset
        offset1  == st.offset + Len(part) + 1
    IN  IF IsShorthand(part)
        THEN LET c == Classify(part)
                 p == PushWildcard(st.steps, c.optional, c.multi)
             IN  [st EXCEPT !.steps = p.steps, !.offset = offset1]
        ELSE IF IsInvalid(part)
        THEN [st EXCEPT !.offset = offset1,
                        !.failed = TRUE,
                        !.err = [position |-> position,
                                 unexpected_token |-> part,
                                 full_string |-> full]]
        ELSE [st EXCEPT !.steps = Append(st.steps, Static(part)), !.offset = offset1]

\* one iteration of the loop over the tokens; st = [steps, offset, failed, err]
TryFromPart(st, part, full) ==
    LET position == st.offset
        offset1  == st.offset + Len(part) + 1
    IN  IF IsShorthand(part)
        THEN LET c == Classify(part)
                 p == PushWildcard(st.steps, c.optional, c.multi)
             IN  [st EXCEPT !.steps = p.steps,
                            !.offset = IF p.pushed THEN offset1 + 1 + Len(part) ELSE offset1]
        ELSE IF IsInvalid(part)
        THEN [st EXCEPT !.offset = offset1,
                        !.failed = TRUE,
                        !.err = [position |-> position,
                                 unexpected_token |-> part,
                                 full_string |-> full]]
        ELSE [st EXCEPT !.steps = Append(st.steps, Static(part)),
                        !.offset = offset1 + 1 + Len(part)]

NoErr == [position |-> 0, unexpected_token |-> EmptyStr, full_string |-> EmptyStr]

RECURSIVE TryFromLoop(_, _, _)
TryFromLoop(st, parts, full) ==
    IF parts = <<>> \/ st.failed
    THEN st
    ELSE TryFromLoop(TryFromPart(st, Head(parts), full), Tail(parts), full)

TryFromState(str, SPLITTER) ==
    TryFromLoop([steps |-> <<>>, offset |-> 0, failed |-> FALSE, err |-> NoErr],
                Split(str, SPLITTER), str)

\* Ok(DomainPattern { steps }) or Err(InvalidToken { .. })
TryFrom(str, SPLITTER) ==
    LET st == TryFromState(str, SPLITTER)
    IN  IF ~st.failed
        THEN [ok |-> TRUE, steps |-> st.steps, SPLITTER |-> SPLITTER]
        ELSE [ok |-> FALSE, err |-> st.err]

----------------------------------------------------------------------------
(* DomainPattern::to_owned *)

\* every Static label is copied, every Wildcard is copied; the value returned
\* has the type DomainPattern<'static>, whose SPLITTER is the default one
ToOwnedStep(step) ==
    IF IsStatic(step) THEN Static(step.label) ELSE Wildcard(step.multi, step.optional)

ToOwnedPattern(p) ==
    [ok |-> TRUE,
     steps |-> [i \in 1..Len(p.steps) |-> ToOwnedStep(p.steps[i])],
     SPLITTER |-> DefaultSplitter]

----------------------------------------------------------------------------
(* The matching engine: DomainPattern::matches *)

\* what an index past the end of steps gives in the model: the code panics there
OutOfRange == [kind |-> "OutOfRange", multi |-> FALSE, optional |-> FALSE]

\* Step indices are the code's: 0-based, steps[i] of the code is StepAt(steps, i)
StepAt(steps, i) == IF i < Len(steps) THEN steps[i + 1] ELSE OutOfRange

RECURSIVE Insert(_, _)
Insert(sorted, x) ==
    IF sorted = <<>> THEN <<x>>
    ELSE IF x <= Head(sorted) THEN <<x>> \o sorted
    ELSE <<Head(sorted)>> \o Insert(Tail(sorted), x)

\* stack.sort()
RECURSIVE Sort(_)
Sort(stack) == IF stack = <<>> THEN <<>> ELSE Insert(Sort(Tail(stack)), Head(stack))

NoPath == -1

IsOptionalWildcard(step) == IsWildcard(step) /\ step.optional

MaxOf(a, b) == IF a >= b THEN a ELSE b

\* The accumulator of one label, acc, holds the code's next_stack, saw_last and
\* last_path, and a record of what the loops did: expanded, the paths that got
\* past the two `continue`s at the head of the loop body; reads, the indices
\* used in self.steps[..]; skips, the iterations of the running `while let`
\* loop; iters, the most iterations one run of that loop has made.
NewAcc ==
    [next_stack |-> <<>>, saw_last |-> FALSE, last_path |-> NoPath,
     expanded |-> <<>>, reads |-> {}, skips |-> 0, iters |-> 0]

\* a `while let` loop without the `if jump_idx == self.steps.len() { break; }`
RECURSIVE SkipOptionalNoBreak(_, _, _)
SkipOptionalNoBreak(steps, next_idx, acc) ==
    LET acc1 == [acc EXCEPT !.reads = @ \cup {next_idx}]
    IN  IF ~IsOptionalWildcard(StepAt(steps, next_idx))
        THEN acc1
        ELSE LET jump_idx == next_idx + 1
                 acc2 == [acc1 EXCEPT !.skips = @ + 1,
                                      !.iters = MaxOf(@, acc1.skips + 1),
                                      !.saw_last = @ \/ jump_idx = Len(steps)]
             IN  SkipOptionalNoBreak(steps, jump_idx,
                                     [acc2 EXCEPT !.next_stack = Append(@, jump_idx)])

\* the `while let Wildcard { optional: true, .. } = &self.steps[next_idx]` loop
RECURSIVE SkipOptional(_, _, _)
SkipOptional(steps, next_idx, acc) ==
    LET acc1 == [acc EXCEPT !.reads = @ \cup {next_idx}]
    IN  IF ~IsOptionalWildcard(StepAt(steps, next_idx))
        THEN acc1
        ELSE LET jump_idx == next_idx + 1
                 acc2 == [acc1 EXCEPT !.skips = @ + 1,
                                      !.iters = MaxOf(@, acc1.skips + 1)]
             IN  IF jump_idx = Len(steps)
                 THEN [acc2 EXCEPT !.saw_last = TRUE]
                 ELSE SkipOptional(steps, jump_idx,
                                   [acc2 EXCEPT !.next_stack = Append(@, jump_idx)])

\* what follows the match on the step at path: advance to path + 1
Advance(steps, path, acc) ==
    LET next_idx == path + 1
    IN  IF next_idx = Len(steps)
        THEN [acc EXCEPT !.saw_last = TRUE]
        ELSE SkipOptional(steps, next_idx,
                          [acc EXCEPT !.next_stack = Append(@, next_idx), !.skips = 0])

\* the head of the loop body once both `continue`s are passed
Expand(path, acc) ==
    [acc EXCEPT !.last_path = path,
                !.expanded = Append(@, path),
                !.reads = @ \cup {path}]

\* a loop body in which a multi wildcard does not stay on the stack
ProcessPathNoStay(steps, label, path, acc) ==
    IF path >= Len(steps) THEN acc
    ELSE IF path = acc.last_path THEN acc
    ELSE LET acc1 == Expand(path, acc)
             part == StepAt(steps, path)
         IN  IF IsStatic(part)
             THEN IF part.label # label THEN acc1 ELSE Advance(steps, path, acc1)
             ELSE Advance(steps, path, acc1)

\* a loop body that takes a Static step for a match whatever the label
ProcessPathNoCompare(steps, label, path, acc) ==
    IF path >= Len(steps) THEN acc
    ELSE IF path = acc.last_path THEN acc
    ELSE LET acc1 == Expand(path, acc)
             part == StepAt(steps, path)
         IN  IF IsStatic(part)
             THEN Advance(steps, path, acc1)
             ELSE IF part.multi
                  THEN Advance(steps, path, [acc1 EXCEPT !.next_stack = Append(@, path)])
                  ELSE Advance(steps, path, acc1)

\* a loop body without the `if Some(path) == last_path { continue; }`
ProcessPathNoDedup(steps, label, path, acc) ==
    IF path >= Len(steps) THEN acc
    ELSE LET acc1 == Expand(path, acc)
             part == StepAt(steps, path)
         IN  IF IsStatic(part)
             THEN IF part.label # label THEN acc1 ELSE Advance(steps, path, acc1)
             ELSE IF part.multi
                  THEN Advance(steps, path, [acc1 EXCEPT !.next_stack = Append(@, path)])
                  ELSE Advance(steps, path, acc1)

\* the body of `for path in &stack`
ProcessPath(steps, label, path, acc) ==
    IF path >= Len(steps) THEN acc
    ELSE IF path = acc.last_path THEN acc
    ELSE LET acc1 == Expand(path, acc)
             part == StepAt(steps, path)
         IN  IF IsStatic(part)
             THEN IF part.label # label THEN acc1 ELSE Advance(steps, path, acc1)
             ELSE IF part.multi
                  THEN Advance(steps, path, [acc1 EXCEPT !.next_stack = Append(@, path)])
                  ELSE Advance(steps, path, acc1)

RECURSIVE ProcessStack(_, _, _, _)
ProcessStack(steps, label, stack, acc) ==
    IF stack = <<>> THEN acc
    ELSE ProcessStack(steps, label, Tail(stack), ProcessPath(steps, label, Head(stack), acc))

\* the engine's state after a label; st = [stack, saw_last] and the record of
\* what the loops did on that label
AfterLabel(acc) ==
    [stack |-> acc.next_stack, saw_last |-> acc.saw_last,
     expanded |-> acc.expanded, reads |-> acc.reads, iters |-> acc.iters]

\* a loop body without the `if label == "" { continue; }`
ProcessLabelNoSkip(steps, label, st) ==
    AfterLabel(ProcessStack(steps, label, Sort(st.stack), NewAcc))

\* a loop body without the `saw_last = false`
ProcessLabelNoReset(steps, label, st) ==
    IF label = EmptyStr
    THEN st
    ELSE AfterLabel(ProcessStack(steps, label, Sort(st.stack),
                                 [NewAcc EXCEPT !.saw_last = st.saw_last]))

\* the body of `for label in domain.split(SPLITTER)`
ProcessLabel(steps, label, st) ==
    IF label = EmptyStr
    THEN st
    ELSE AfterLabel(ProcessStack(steps, label, Sort(st.stack), NewAcc))

\* the state after `stack.push(0)` and `let mut saw_last = false`
InitialState ==
    [stack |-> <<0>>, saw_last |-> FALSE, expanded |-> <<>>, reads |-> {}, iters |-> 0]

\* the engine's states: before the first label and after each label of the split
RECURSIVE MatchTrace(_, _, _)
MatchTrace(steps, labels, tr) ==
    IF labels = <<>> THEN tr
    ELSE MatchTrace(steps, Tail(labels),
                    Append(tr, ProcessLabel(steps, Head(labels), tr[Len(tr)])))

\* an engine that splits the name on the default separator
MatchesTraceDefaultSplit(p, name) ==
    MatchTrace(p.steps, Split(name, DefaultSplitter), <<InitialState>>)

MatchesTrace(p, name) == MatchTrace(p.steps, Split(name, p.SPLITTER), <<InitialState>>)

\* the value returned: saw_last after the last label
MatchesResult(p, name) ==
    LET tr == MatchesTrace(p, name) IN tr[Len(tr)].saw_last

----------------------------------------------------------------------------
(* Display for InvalidToken *)

Quote == "\""
Backslash == "\\"

\* {:?} of a string: quoted, with '"' and '\' escaped
RECURSIVE EscapeDebug(_)
EscapeDebug(str) ==
    IF str = <<>> THEN <<>>
    ELSE (IF Head(str) \in {Quote, Backslash} THEN <<Backslash, Head(str)>> ELSE <<Head(str)>>)
             \o EscapeDebug(Tail(str))

DebugStr(str) == <<Quote>> \o EscapeDebug(str) \o <<Quote>>

Digits == <<"0", "1", "2", "3", "4", "5", "6", "7", "8", "9">>

\* {} of a usize
RECURSIVE DisplayUsize(_)
DisplayUsize(n) ==
    IF n < 10 THEN <<Digits[n + 1]>>
    ELSE DisplayUsize(n \div 10) \o <<Digits[(n % 10) + 1]>>

\* the literal pieces of the format string
FmtInvalidToken == <<"I", "n", "v", "a", "l", "i", "d", " ", "t", "o", "k", "e", "n", " ">>
FmtAtPosition == <<" ", "a", "t", " ", "p", "o", "s", "i", "t", "i", "o", "n", " ">>
FmtInPattern == <<" ", "i", "n", " ", "p", "a", "t", "t", "e", "r", "n", " ", " ">>

\* write!(f, "Invalid token {:?} at position {} in pattern  {:?}", ..)
FmtDisplay(err) ==
    FmtInvalidToken \o DebugStr(err.unexpected_token)
        \o FmtAtPosition \o DisplayUsize(err.position)
        \o FmtInPattern \o DebugStr(err.full_string)

----------------------------------------------------------------------------
(* Inputs *)

A == <<"a">>
B == <<"b">>
Nice == <<"n", "i", "c", "e">>
Wow == <<"w", "o", "w">>
X == <<"x">>

RECURSIVE Join(_, _)
Join(parts, c) ==
    IF Len(parts) = 1 THEN parts[1]
    ELSE parts[1] \o <<c>> \o Join(Tail(parts), c)

SeqsUpTo(S, n) == UNION {[1..k -> S] : k \in 1..n}

Splitters == {Dot, Slash}

\* the tokens patterns are made of: the four shorthands, a literal and a token
\* with a stray '*'
Tokens == {TokStar, TokPlus, TokStarStar, TokStarStarPlus, A, <<"a", Star>>}

\* tokens for the patterns with empty tokens and with several invalid tokens
EdgeTokens == {A, TokStarStar, EmptyStr, <<"a", Star>>, <<Plus, Plus>>}

Labels == {A, B}

\* names with no segment and with leading, trailing and doubled separators
EdgeNameLabels ==
    {<<EmptyStr>>, <<EmptyStr, EmptyStr>>, <<EmptyStr, EmptyStr, EmptyStr>>,
     <<EmptyStr, A>>, <<A, EmptyStr>>, <<A, EmptyStr, A>>, <<A, EmptyStr, B>>,
     <<EmptyStr, A, EmptyStr, EmptyStr, A, EmptyStr>>,
     <<EmptyStr, B, A, EmptyStr>>}

\* the patterns and names of the crate's documentation table
Domain == <<"d", "o", "m", "a", "i", "n">>
Tld == <<"t", "l", "d">>
Sub == <<"s", "u", "b">>

TablePatternTokens ==
    {<<Domain, Tld>>, <<TokStar, Domain, Tld>>, <<TokPlus, Domain, Tld>>,
     <<TokStarStar, Domain, Tld>>, <<TokStarStarPlus, Domain, Tld>>}

TableNameLabels == {<<Domain, Tld>>, <<Sub, Domain, Tld>>, <<Sub, Sub, Domain, Tld>>}

\* the patterns and names of tests::test_simple
Copies(l, k) == [i \in 1..k |-> l]

NicePatternTokens ==
    {<<Nice, w, Nice>> : w \in {TokStar, TokPlus, TokStarStar, TokStarStarPlus}}
        \cup {<<Nice, Nice>>, <<TokPlus, Nice, TokStarStar>>}

NiceNameLabels == {Copies(Nice, k) : k \in 1..MaxCopies} \cup {<<Nice, Wow>>}

StarChainTokens == {Copies(TokStarStar, n) : n \in 1..MaxStars}

XNameLabels == {Copies(X, k) : k \in 1..MaxCopies}

\* the pattern of tests::test_algorithmic_blowup, a run of `*` before a literal,
\* and its like with `+`
BlowupPatternTokens == {Copies(w, MaxStars) \o <<Nice>> : w \in {TokStar, TokPlus}}

PatternTokens ==
    SeqsUpTo(Tokens, MaxTokens) \cup SeqsUpTo(EdgeTokens, MaxTokens)
        \cup TablePatternTokens \cup NicePatternTokens \cup StarChainTokens
        \cup BlowupPatternTokens

NameLabels ==
    SeqsUpTo(Labels, MaxLabels) \cup EdgeNameLabels
        \cup TableNameLabels \cup NiceNameLabels \cup XNameLabels

Patterns(c) == {Join(toks, c) : toks \in PatternTokens}

Names(c) == {Join(ls, c) : ls \in NameLabels}

----------------------------------------------------------------------------
(* The state machine: parse, then optionally to_owned, then matches *)

None == [ok |-> FALSE, err |-> NoErr]

Start(pats) ==
    /\ s \in pats
    /\ pattern = None
    /\ domain = EmptyStr
    /\ trace = <<>>
    /\ result = FALSE
    /\ rendered = EmptyStr
    /\ pc = "start"

\* DomainPattern::<SPLITTER>::parse(s)
Parse ==
    /\ pc = "start"
    /\ pattern' = TryFrom(s, splitter)
    /\ pc' = IF pattern'.ok THEN "parsed" ELSE "failed"
    /\ UNCHANGED <<splitter, s, domain, trace, result, rendered>>

\* pattern.to_owned()
ToOwned ==
    /\ pc = "parsed"
    /\ pattern' = ToOwnedPattern(pattern)
    /\ pc' = "owned"
    /\ UNCHANGED <<splitter, s, domain, trace, result, rendered>>

\* pattern.matches(name)
Matches(name) ==
    /\ pc \in {"parsed", "owned"}
    /\ domain' = name
    /\ trace' = MatchesTrace(pattern, name)
    /\ result' = trace'[Len(trace')].saw_last
    /\ pc' = IF pc = "owned" THEN "done_owned" ELSE "done"
    /\ UNCHANGED <<splitter, s, pattern, rendered>>

\* format!("{}", err) on the InvalidToken parse returned
Display ==
    /\ pc = "failed"
    /\ rendered' = FmtDisplay(pattern.err)
    /\ pc' = "shown"
    /\ UNCHANGED <<splitter, s, pattern, domain, trace, result>>

Init == \E c \in Splitters : splitter = c /\ Start(Patterns(c))

MatchesAny == \E name \in Names(splitter) : Matches(name)

Next ==
    \/ Parse
    \/ ToOwned
    \/ MatchesAny
    \/ Display

Spec == Init /\ [][Next]_vars

Done == pc \in {"done", "done_owned"}

Failed == pc \in {"failed", "shown"}

----------------------------------------------------------------------------
(* What the claims speak about *)

PatternTokensOf == Split(s, splitter)

\* the labels of the name in hand, as the pattern in hand splits it
DomainLabels == Split(domain, pattern.SPLITTER)

IsNonEmpty(l) == l # EmptyStr

Segments(name, c) == SelectSeq(Split(name, c), IsNonEmpty)

Parsed == pc # "start"

----------------------------------------------------------------------------
(* C1: the documentation table *)

TableExpected(toks, labels) ==
    LET n == Len(labels)
    IN  IF toks = <<Domain, Tld>> THEN n = 2
        ELSE IF toks[1] = TokStar THEN n \in {2, 3}
        ELSE IF toks[1] = TokPlus THEN n = 3
        ELSE IF toks[1] = TokStarStar THEN n \in {2, 3, 4}
        ELSE n \in {3, 4}

\* C1: with separator '.', parse followed by matches gives, for each of the
\* five patterns and three names of the documentation table, the documented cell.
C1_TruthTable ==
    (/\ pc = "done"
     /\ splitter = Dot
     /\ PatternTokensOf \in TablePatternTokens
     /\ Split(domain, Dot) \in TableNameLabels)
        => result = TableExpected(PatternTokensOf, Split(domain, Dot))

----------------------------------------------------------------------------
(* C2: the engine against the division of the segments among the steps *)

MinOf(a, b) == IF a <= b THEN a ELSE b

\* steps[i..] can be given segs[j..]: one group per step, nothing left over
RECURSIVE Divides(_, _, _, _)
Divides(steps, i, segs, j) ==
    IF i > Len(steps) THEN j > Len(segs)
    ELSE LET step == steps[i]
             left == Len(segs) - j + 1
         IN  IF step.kind = "Static"
             THEN left >= 1 /\ segs[j] = step.label /\ Divides(steps, i + 1, segs, j + 1)
             ELSE LET lo == IF step.optional THEN 0 ELSE 1
                      hi == IF step.multi THEN left ELSE MinOf(1, left)
                  IN  \E k \in lo..hi : Divides(steps, i + 1, segs, j + k)

\* C2: for a name with at least one non-empty segment, matches returns true
\* exactly when the non-empty segments of the name can be divided into
\* consecutive groups, one per step in order, as the steps' kinds allow.
C2_MatchesIffDivides ==
    (pc = "done" /\ Segments(domain, splitter) # <<>>) => result = Divides(pattern.steps, 1, Segments(domain, splitter), 1)

----------------------------------------------------------------------------
(* C3: to_owned *)

\* C3: the pattern returned by to_owned matches a name exactly when the pattern
\* it was made from does, whichever separator that pattern was built with.
C3_ToOwnedPreservesMatches ==
    pc = "done_owned" => result = MatchesResult(TryFrom(s, splitter), domain)

----------------------------------------------------------------------------
(* C4: folding *)

UnfoldedStep(tok) ==
    IF tok = TokStar THEN Wildcard(FALSE, TRUE)
    ELSE IF tok = TokPlus THEN Wildcard(FALSE, FALSE)
    ELSE IF tok = TokStarStar THEN Wildcard(TRUE, TRUE)
    ELSE IF tok = TokStarStarPlus THEN Wildcard(TRUE, FALSE)
    ELSE Static(tok)

Unfolded(toks) == [i \in 1..Len(toks) |-> UnfoldedStep(toks[i])]

\* C4: the engine gives on the steps parse produced the same answer as on the
\* steps obtained by classifying each token on its own, without folding.
C4_FoldingPreservesMatches ==
    pc = "done" =>
        result = MatchesResult([ok |-> TRUE, steps |-> Unfolded(PatternTokensOf),
                                SPLITTER |-> splitter], domain)

----------------------------------------------------------------------------
(* C5: the empty name *)

\* C5: a name with no non-empty segment is matched by no compiled pattern.
C5_EmptyNameNeverMatches ==
    (Done /\ Segments(domain, pattern.SPLITTER) = <<>>) => result = FALSE

C5_Witness ==
    /\ Done
    /\ domain # EmptyStr
    /\ Segments(domain, pattern.SPLITTER) = <<>>
    /\ pattern.steps = <<Wildcard(TRUE, TRUE)>>
    /\ result = FALSE

----------------------------------------------------------------------------
(* C6: one wildcard between two equal literals, against k copies of the literal *)

LiteralLabels == {A, Nice}

IsLWL(toks) ==
    /\ Len(toks) \in {2, 3}
    /\ toks[1] \in LiteralLabels
    /\ toks[Len(toks)] = toks[1]
    /\ Len(toks) = 3 => toks[2] \in {TokStar, TokPlus, TokStarStar, TokStarStarPlus}

CopiesExpected(toks, k) ==
    IF Len(toks) = 2 THEN k = 2
    ELSE IF toks[2] = TokStarStar THEN k >= 2
    ELSE IF toks[2] = TokStarStarPlus THEN k >= 3
    ELSE IF toks[2] = TokStar THEN k \in {2, 3}
    ELSE k = 3

\* C6: L.W.L on k >= 1 copies of L matches iff k >= 2 (W = **), k >= 3 (**+),
\* k in {2, 3} (*), k = 3 (+); L.L matches iff k = 2.
C6_CopiesOfLiteral ==
    LET toks   == PatternTokensOf
        labels == Split(domain, splitter)
    IN  (/\ pc = "done"
         /\ IsLWL(toks)
         /\ labels = Copies(toks[1], Len(labels)))
            => result = CopiesExpected(toks, Len(labels))

C6_Witness ==
    /\ pc = "done"
    /\ PatternTokensOf = <<Nice, TokStarStar, Nice>>
    /\ Split(domain, splitter) = Copies(Nice, 4)
    /\ result = TRUE

----------------------------------------------------------------------------
(* C7: the separator *)

SlashToDot(str) == [i \in 1..Len(str) |-> IF str[i] = Slash THEN Dot ELSE str[i]]

\* C7: a pattern compiled with '/' gives on a name written with '/' what the
\* same tokens compiled with '.' give on the same segments written with '.';
\* `+/nice/**` matches two or more `nice` and neither `nice/wow` nor `nice`.
C7_SeparatorOnlySplits ==
    (pc = "done" /\ splitter = Slash) =>
        /\ LET p == TryFrom(SlashToDot(s), Dot)
           IN  p.ok /\ result = MatchesResult(p, SlashToDot(domain))
        /\ (/\ PatternTokensOf = <<TokPlus, Nice, TokStarStar>>
            /\ Split(domain, Slash) \in NiceNameLabels)
               => result = (Split(domain, Slash) \in {Copies(Nice, k) : k \in 2..MaxCopies})

C7_Witness ==
    /\ pc = "done"
    /\ splitter = Slash
    /\ PatternTokensOf = <<TokPlus, Nice, TokStarStar>>
    /\ domain = Join(Copies(Nice, 3), Slash)
    /\ result = TRUE

----------------------------------------------------------------------------
(* C8: the one failure of parse *)

StrayToken(tok) ==
    /\ tok \notin {<<"*">>, <<"+">>, <<"*", "*">>, <<"*", "*", "+">>}
    /\ \E i \in 1..Len(tok) : tok[i] = "*" \/ tok[i] = "+"

StrayIndices(toks) == {i \in 1..Len(toks) : StrayToken(toks[i])}

Leftmost(I) == CHOOSE i \in I : \A j \in I : i <= j

\* C8: parse fails exactly when some token is no shorthand and contains '*' or
\* '+'; the error carries the leftmost such token and the whole pattern string.
C8_ParseFailsOnStrayToken ==
    Parsed =>
        LET toks == PatternTokensOf
            bad  == StrayIndices(toks)
        IN  /\ pattern.ok <=> bad = {}
            /\ Failed <=> bad # {}
            /\ bad # {} => /\ pattern.err.unexpected_token = toks[Leftmost(bad)]
                           /\ pattern.err.full_string = s

C8_Witness ==
    /\ pc = "failed"
    /\ PatternTokensOf = <<A, <<Plus, Plus>>, <<"a", Star>>>>
    /\ pattern.err.unexpected_token = <<Plus, Plus>>
    /\ pattern.err.full_string = s

----------------------------------------------------------------------------
(* C9: empty tokens *)

HasEmptyToken == \E i \in 1..Len(PatternTokensOf) : PatternTokensOf[i] = EmptyStr

HasEmptyStatic == \E i \in 1..Len(pattern.steps) : pattern.steps[i] = Static(EmptyStr)

\* C9 as stated: the empty pattern compiles to the one step Static(""), every
\* pattern with an empty token compiles to steps with a Static("") among them,
\* and such a pattern matches no name.
C9_EmptyTokenCompiles ==
    /\ (Parsed /\ s = EmptyStr) => (pattern.ok /\ pattern.steps = <<Static(EmptyStr)>>)
    /\ (Parsed /\ HasEmptyToken) => (pattern.ok /\ HasEmptyStatic)
    /\ (Done /\ HasEmptyToken) => result = FALSE

\* C9 as amended: the same, for the patterns with an empty token none of whose
\* tokens is invalid (a pattern with an invalid token does not compile).
C9_EmptyTokenNeverMatches ==
    /\ (Parsed /\ s = EmptyStr) => (pattern.ok /\ pattern.steps = <<Static(EmptyStr)>>)
    /\ (Parsed /\ HasEmptyToken /\ StrayIndices(PatternTokensOf) = {})
          => (pattern.ok /\ HasEmptyStatic)
    /\ (Done /\ HasEmptyToken) => result = FALSE

C9_Witness ==
    /\ pc = "done"
    /\ PatternTokensOf = <<A, EmptyStr>>
    /\ domain = A
    /\ HasEmptyStatic
    /\ result = FALSE

----------------------------------------------------------------------------
(* C10: chains of `**` *)

IsStarChain(toks) == \A i \in 1..Len(toks) : toks[i] = TokStarStar

\* C10: a pattern of n >= 1 tokens `**` and nothing else compiles to exactly one
\* step and matches every name that has a non-empty segment.
C10_StarChainIsOneStep ==
    /\ (Parsed /\ IsStarChain(PatternTokensOf)) => (pattern.ok /\ Len(pattern.steps) = 1)
    /\ (Done /\ IsStarChain(PatternTokensOf) /\ Segments(domain, pattern.SPLITTER) # <<>>)
          => result = TRUE

C10_Witness ==
    /\ pc = "done"
    /\ PatternTokensOf = Copies(TokStarStar, 5)
    /\ Len(pattern.steps) = 1
    /\ Split(domain, splitter) = Copies(X, 4)
    /\ result = TRUE

----------------------------------------------------------------------------
(* C11: the cascading fold *)

IsPlusChain(toks) ==
    /\ Len(toks) >= 2
    /\ \A i \in 1..Len(toks) : toks[i] \in {TokPlus, TokStarStarPlus}
    /\ \E i \in 1..Len(toks) : toks[i] = TokStarStarPlus

\* C11: n >= 2 tokens, each `+` or `**+` and at least one `**+`, compile to n
\* steps: n - 1 times Wildcard(multi=false, optional=false), then
\* Wildcard(multi=true, optional=false).
C11_CascadingFold ==
    (Parsed /\ IsPlusChain(PatternTokensOf)) =>
        LET n == Len(PatternTokensOf)
        IN  /\ pattern.ok
            /\ Len(pattern.steps) = n
            /\ \A i \in 1..(n - 1) : pattern.steps[i] = Wildcard(FALSE, FALSE)
            /\ pattern.steps[n] = Wildcard(TRUE, FALSE)

C11_Witness ==
    /\ pc = "parsed"
    /\ PatternTokensOf = <<TokStarStarPlus, TokPlus, TokStarStarPlus>>
    /\ pattern.steps[1] = Wildcard(FALSE, FALSE)
    /\ pattern.steps[2] = Wildcard(FALSE, FALSE)

----------------------------------------------------------------------------
(* C12: matches is total *)

\* C12: matches returns a boolean after going through every label, no run of
\* the skip loop makes more iterations than there are steps, and every index
\* used to read steps is smaller than the number of steps.
C12_MatchesIsTotal ==
    Done =>
        /\ result \in BOOLEAN
        /\ Len(trace) = Len(DomainLabels) + 1
        /\ \A j \in 1..Len(trace) :
              /\ trace[j].iters <= Len(pattern.steps)
              /\ \A i \in trace[j].reads : 0 <= i /\ i < Len(pattern.steps)

C12_Witness ==
    /\ Done
    /\ Len(pattern.steps) = 3
    /\ \E j \in 1..Len(trace) :
          /\ trace[j].iters = 2
          /\ trace[j].reads = {0, 1, 2}

----------------------------------------------------------------------------
(* C13: the text of a parse error *)

DoubleQuoted(str) == <<"\"">> \o str \o <<"\"">>

ExpectedDisplay(err) ==
    <<"I", "n", "v", "a", "l", "i", "d", " ", "t", "o", "k", "e", "n", " ">>
        \o DoubleQuoted(err.unexpected_token)
        \o <<" ", "a", "t", " ", "p", "o", "s", "i", "t", "i", "o", "n", " ">>
        \o DisplayUsize(err.position)
        \o <<" ", "i", "n", " ", "p", "a", "t", "t", "e", "r", "n", " ">>
        \o DoubleQuoted(err.full_string)

\* C13: the rendering of a parse error is `Invalid token "<token>" at position
\* <n> in pattern "<full>"`, one space between adjacent words.
C13_DisplayText ==
    pc = "shown" => rendered = ExpectedDisplay(pattern.err)

----------------------------------------------------------------------------
(* C14: the generation before each segment *)

Range(seq) == {seq[i] : i \in 1..Len(seq)}

\* the non-terminal positions reachable once segs are consumed: position i when
\* the steps before it can be given all of segs, or when step i is a multi
\* wildcard that has taken the last of segs and may take more
Reachable(steps, segs) ==
    {i \in 0..(Len(steps) - 1) :
        \/ Divides(SubSeq(steps, 1, i), 1, segs, 1)
        \/ /\ steps[i + 1].kind = "Wildcard"
           /\ steps[i + 1].multi
           /\ \E j \in 0..(Len(segs) - 1) :
                 Divides(SubSeq(steps, 1, i), 1, SubSeq(segs, 1, j), 1)}

SegmentsBefore(labels, j) == SelectSeq(SubSeq(labels, 1, j - 1), IsNonEmpty)

\* C14: before each non-empty segment is processed, the first included, the
\* indices of the current generation are exactly the non-terminal positions
\* reachable after the segments read so far, optional wildcards being skippable.
C14_GenerationIsReachable ==
    Done =>
        \A j \in 1..Len(DomainLabels) :
            DomainLabels[j] # EmptyStr =>
                Range(trace[j].stack) = Reachable(pattern.steps, SegmentsBefore(DomainLabels, j))

----------------------------------------------------------------------------
(* C15: the result is that of the last segment *)

LastSegmentIndex(labels) ==
    CHOOSE j \in 1..Len(labels) :
        labels[j] # EmptyStr /\ \A k \in (j + 1)..Len(labels) : labels[k] = EmptyStr

\* some thread of gen takes the label and is then at the terminal position,
\* the optional wildcards that follow it being skipped
ReachesTerminal(steps, gen, label) ==
    \E i \in gen :
        /\ i < Len(steps)
        /\ steps[i + 1].kind = "Static" => steps[i + 1].label = label
        /\ \A k \in (i + 2)..Len(steps) : steps[k].kind = "Wildcard" /\ steps[k].optional

\* C15: for a name with a non-empty segment, the result is true exactly when a
\* thread of the generation before the last non-empty segment reaches the
\* terminal position on that segment, whatever happened on earlier segments.
C15_ResultIsLastSegment ==
    (Done /\ Segments(domain, pattern.SPLITTER) # <<>>) =>
        LET j == LastSegmentIndex(DomainLabels)
        IN  result = ReachesTerminal(pattern.steps, Range(trace[j].stack), DomainLabels[j])

C15_Witness ==
    /\ Done
    /\ DomainLabels[Len(DomainLabels)] # EmptyStr
    /\ \E j \in 2..(Len(trace) - 1) : trace[j].saw_last
    /\ result = FALSE

----------------------------------------------------------------------------
(* C16: empty segments *)

Stripped(name, c) ==
    IF Segments(name, c) = <<>> THEN EmptyStr ELSE Join(Segments(name, c), c)

\* C16: matches gives on a name what it gives on the name without its empty
\* segments, and the engine's state is the same after an empty segment as before.
C16_EmptySegmentsSkipped ==
    Done =>
        /\ result = MatchesResult(pattern, Stripped(domain, pattern.SPLITTER))
        /\ \A j \in 1..Len(DomainLabels) :
              DomainLabels[j] = EmptyStr => trace[j + 1] = trace[j]

C16_Witness ==
    /\ Done
    /\ DomainLabels = <<A, EmptyStr, A>>
    /\ Stripped(domain, pattern.SPLITTER) = Join(<<A, A>>, pattern.SPLITTER)
    /\ result = TRUE

----------------------------------------------------------------------------
(* C17: no false positives *)

\* C17: when matches returns true, the non-empty segments of the name can be
\* divided in order among the steps as the steps' kinds allow.
C17_NoFalsePositive ==
    (Done /\ result) => Divides(pattern.steps, 1, Segments(domain, pattern.SPLITTER), 1)

C17_Witness ==
    /\ pc = "done"
    /\ PatternTokensOf = <<TokPlus, A, TokStarStar>>
    /\ DomainLabels = <<B, A, B>>
    /\ result = TRUE

----------------------------------------------------------------------------
(* C18: what folding leaves *)

BothWildcards(a, b) == a.kind = "Wildcard" /\ b.kind = "Wildcard"

\* `**` followed by `**`
CollapsePair(a, b) ==
    BothWildcards(a, b) /\ a.multi /\ a.optional /\ b.multi /\ b.optional

\* optional flags differ and one of the two is multi
MergePair(a, b) ==
    BothWildcards(a, b) /\ a.optional # b.optional /\ (a.multi \/ b.multi)

\* a (multi, non-optional) step followed by a non-optional wildcard
CascadePair(a, b) ==
    BothWildcards(a, b) /\ a.multi /\ ~a.optional /\ ~b.optional

\* C18 as stated: in a compiled step sequence no adjacent pair is one a fold
\* rule still applies to.
C18_FoldingFixedPoint ==
    (Parsed /\ pattern.ok) =>
        \A i \in 1..(Len(pattern.steps) - 1) :
            LET a == pattern.steps[i]
                b == pattern.steps[i + 1]
            IN  ~CollapsePair(a, b) /\ ~MergePair(a, b) /\ ~CascadePair(a, b)

\* C18 as amended: no adjacent pair is (`**`, `**`) or a (multi, non-optional)
\* step followed by a non-optional wildcard, and a pair whose optional flags
\* differ with one of the two multi has the optional step first.
C18_FoldingLeavesOptionalFirst ==
    (Parsed /\ pattern.ok) =>
        \A i \in 1..(Len(pattern.steps) - 1) :
            LET a == pattern.steps[i]
                b == pattern.steps[i + 1]
            IN  /\ ~CollapsePair(a, b)
                /\ ~CascadePair(a, b)
                /\ MergePair(a, b) => (a.optional /\ ~b.optional)

C18_Witness ==
    /\ pc = "parsed"
    /\ PatternTokensOf = <<TokStar, TokStarStar, TokPlus>>
    /\ pattern.steps = <<Wildcard(FALSE, TRUE), Wildcard(TRUE, FALSE)>>

----------------------------------------------------------------------------
(* C19: the position of a parse error *)

\* the steps after the first j tokens, none of them invalid
StepsAfter(toks, j) ==
    TryFromLoop([steps |-> <<>>, offset |-> 0, failed |-> FALSE, err |-> NoErr],
                SubSeq(toks, 1, j), s).steps

\* token j added no step: it was folded into the step before it
FoldedAt(toks, j) == Len(StepsAfter(toks, j)) = Len(StepsAfter(toks, j - 1))

RECURSIVE TwiceSum(_, _)
TwiceSum(toks, n) ==
    IF n = 0 THEN 0 ELSE TwiceSum(toks, n - 1) + 2 * (Len(toks[n]) + 1)

RECURSIVE FoldAwareSum(_, _)
FoldAwareSum(toks, n) ==
    IF n = 0 THEN 0
    ELSE FoldAwareSum(toks, n - 1)
            + (IF FoldedAt(toks, n) THEN 1 ELSE 2) * (Len(toks[n]) + 1)

\* C19 as stated: the position of a parse error is twice the sum of
\* (length + 1) over the tokens before the offending one.
C19_PositionIsTwiceSum ==
    Failed =>
        pattern.err.position
            = TwiceSum(PatternTokensOf, Leftmost(StrayIndices(PatternTokensOf)) - 1)

\* C19 as amended: (length + 1) counts twice for a preceding token that added a
\* step and once for a preceding wildcard token folded into the step before it.
C19_PositionCountsFoldedOnce ==
    Failed =>
        pattern.err.position
            = FoldAwareSum(PatternTokensOf, Leftmost(StrayIndices(PatternTokensOf)) - 1)

C19_Witness ==
    /\ pc = "failed"
    /\ PatternTokensOf = <<TokStarStar, TokStarStar, <<"a", Star>>>>
    /\ pattern.err.position = 9

----------------------------------------------------------------------------
(* C20: deduplication *)

NoDuplicates(seq) == \A i, j \in 1..Len(seq) : seq[i] = seq[j] => i = j

====
